---- MODULE Spec2Model ----
(***************************************************************************)
(* Model of the RISE consumer service (src/rise/app/api/services/rise.py): *)
(* RISE.read_message and RISE.process_request, the message-triggered       *)
(* pipeline that assembles a SFINCS model bundle, and of the accessor      *)
(* get_consumer_manager (src/rise/app/cache.py).                           *)
(***************************************************************************)
EXTENDS Integers, Sequences, FiniteSets, TLC

(***************************************************************************)
(* Text.  A payload is a sequence of byte values; text is a sequence of    *)
(* one-character strings.                                                  *)
(***************************************************************************)
Letters == <<"a","b","c","d","e","f","g","h","i","j","k","l","m",
             "n","o","p","q","r","s","t","u","v","w","x","y","z">>

Digits == <<"0","1","2","3","4","5","6","7","8","9">>

\* The ASCII byte values the model's payloads use.
AsciiCodes == (97..122) \cup (48..57) \cup {123, 125, 92, 34, 58, 44, 45}

\* The character of an ASCII byte value.
Chr(b) ==
    IF b \in 97..122 THEN Letters[b - 96]
    ELSE IF b \in 48..57 THEN Digits[b - 47]
    ELSE CASE b = 123 -> "{"
           [] b = 125 -> "}"
           [] b = 92  -> "\\"
           [] b = 34  -> "\""
           [] b = 58  -> ":"
           [] b = 44  -> ","
           [] b = 45  -> "-"

\* The byte value of a character (str.encode, the sender's side).
Ord(c) == CHOOSE b \in AsciiCodes : Chr(b) = c

Encode(text) == [i \in 1..Len(text) |-> Ord(text[i])]

\* A byte that is valid nowhere in UTF-8 (0xFF): bytes.decode() raises on it.
InvalidByte == 255

\* bytes.decode(): fails on a byte that is not valid UTF-8, else maps each
\* byte to its character.
BytesDecode(body) ==
    IF \E i \in 1..Len(body) : body[i] \notin AsciiCodes
    THEN [ok |-> FALSE, text |-> <<>>]
    ELSE [ok |-> TRUE, text |-> [i \in 1..Len(body) |-> Chr(body[i])]]

\* StrFind as a slip would have it: the last occurrence instead of the first.
StrFind_Last(s, c) ==
    IF \E i \in 1..Len(s) : s[i] = c
    THEN (CHOOSE i \in 1..Len(s) : s[i] = c /\ \A j \in (i + 1)..Len(s) : s[j] # c) - 1
    ELSE -1

\* str.find(c): the 0-based index of the first occurrence, -1 when absent.
StrFind(s, c) ==
    IF \E i \in 1..Len(s) : s[i] = c
    THEN (CHOOSE i \in 1..Len(s) : s[i] = c /\ \A j \in 1..(i - 1) : s[j] # c) - 1
    ELSE -1

\* str.rfind(c): the 0-based index of the last occurrence, -1 when absent.
StrRFind(s, c) ==
    IF \E i \in 1..Len(s) : s[i] = c
    THEN (CHOOSE i \in 1..Len(s) : s[i] = c /\ \A j \in (i + 1)..Len(s) : s[j] # c) - 1
    ELSE -1

\* A slice bound as Python normalises it: negative counts from the end, and
\* the result is clamped to 0..len.
SliceBound(i, n) ==
    IF i < 0 THEN (IF i + n < 0 THEN 0 ELSE i + n)
    ELSE (IF i > n THEN n ELSE i)

\* s[a:b] with Python's semantics (0-based, end exclusive).
StrSlice(s, a, b) ==
    SubSeq(s, SliceBound(a, Len(s)) + 1, SliceBound(b, Len(s)))

\* str.replace(c, ""): every occurrence of c removed.
StrRemove(s, c) == SelectSeq(s, LAMBDA x : x # c)

(***************************************************************************)
(* json.loads on the texts the model draws: objects, strings and unsigned  *)
(* integers, without whitespace.  Outside a string every other character   *)
(* is a syntax error.  A value is a record of one shape, so that any two   *)
(* values compare.                                                         *)
(***************************************************************************)
JNum(n) == [t |-> "num", n |-> n, s |-> <<>>, o |-> {}]

JStr(s) == [t |-> "str", n |-> 0, s |-> s, o |-> {}]

JObj(members) == [t |-> "obj", n |-> 0, s |-> <<>>, o |-> members]

JNone == [t |-> "none", n |-> 0, s |-> <<>>, o |-> {}]

ParseFail == [ok |-> FALSE, v |-> JNone, next |-> 0]

IsDigit(c) == \E d \in 1..10 : Digits[d] = c

DigitValue(c) == (CHOOSE d \in 1..10 : Digits[d] = c) - 1

RECURSIVE DecimalValue(_)
DecimalValue(ds) ==
    IF ds = <<>> THEN 0
    ELSE 10 * DecimalValue(SubSeq(ds, 1, Len(ds) - 1)) + DigitValue(ds[Len(ds)])

\* The end (1-based, inclusive) of the digit run that starts at i.
RECURSIVE DigitRunEnd(_, _)
DigitRunEnd(s, i) ==
    IF i + 1 <= Len(s) /\ IsDigit(s[i + 1]) THEN DigitRunEnd(s, i + 1) ELSE i

\* An integer literal at i: "0" alone, or a run of digits not starting 0.
ParseNumber(s, i) ==
    LET j == IF s[i] = "0" THEN i ELSE DigitRunEnd(s, i)
    IN [ok |-> TRUE, v |-> JNum(DecimalValue(SubSeq(s, i, j))), next |-> j + 1]

\* A string literal at i (s[i] is the opening quote): up to the next quote.
ParseString(s, i) ==
    IF \E j \in (i + 1)..Len(s) : s[j] = "\""
    THEN LET j == CHOOSE j \in (i + 1)..Len(s) :
                      s[j] = "\"" /\ \A k \in (i + 1)..(j - 1) : s[k] # "\""
         IN [ok |-> TRUE, v |-> JStr(SubSeq(s, i + 1, j - 1)), next |-> j + 1]
    ELSE ParseFail

RECURSIVE ParseValue(_, _)
RECURSIVE ParseMembers(_, _, _)

\* The members of an object from position i on, after "{" or ",": a string
\* key, ":", a value, then "," and more members or the closing "}".  A key
\* given twice keeps its last value, as a dict does.
ParseMembers(s, i, acc) ==
    IF i > Len(s) \/ s[i] # "\"" THEN ParseFail
    ELSE LET key == ParseString(s, i)
         IN IF ~key.ok \/ key.next > Len(s) \/ s[key.next] # ":" THEN ParseFail
            ELSE LET val == ParseValue(s, key.next + 1)
                     now == {m \in acc : m.k # key.v.s}
                                \cup {[k |-> key.v.s, v |-> val.v]}
                 IN IF ~val.ok \/ val.next > Len(s) THEN ParseFail
                    ELSE IF s[val.next] = "}"
                         THEN [ok |-> TRUE, v |-> JObj(now), next |-> val.next + 1]
                    ELSE IF s[val.next] = ","
                         THEN ParseMembers(s, val.next + 1, now)
                    ELSE ParseFail

ParseValue(s, i) ==
    IF i > Len(s) THEN ParseFail
    ELSE IF s[i] = "{"
         THEN IF i + 1 <= Len(s) /\ s[i + 1] = "}"
              THEN [ok |-> TRUE, v |-> JObj({}), next |-> i + 2]
              ELSE ParseMembers(s, i + 1, {})
    ELSE IF s[i] = "\"" THEN ParseString(s, i)
    ELSE IF IsDigit(s[i]) THEN ParseNumber(s, i)
    ELSE ParseFail

\* json.loads(s): one value spanning the whole text, else an error.
JsonLoads(s) ==
    LET r == ParseValue(s, 1)
    IN IF r.ok /\ r.next = Len(s) + 1
       THEN [ok |-> TRUE, v |-> r.v]
       ELSE [ok |-> FALSE, v |-> JNone]

\* JsonSpan as a slip would have it: message_str[json_start:], no end bound.
JsonSpan_NoEnd(message_str) ==
    StrSlice(message_str, StrFind(message_str, "{"), Len(message_str))

\* message_str[json_start : json_end + 1]
JsonSpan(message_str) ==
    StrSlice(message_str, StrFind(message_str, "{"), StrRFind(message_str, "}") + 1)

\* RISE.read_message: decode, cut from the first "{" to the last "}", drop
\* the backslashes, parse.  ok = FALSE stands for the raised exception.
ReadMessage(body) ==
    LET dec == BytesDecode(body)
    IN IF ~dec.ok THEN [ok |-> FALSE, v |-> JNone]
       ELSE JsonLoads(StrRemove(JsonSpan(dec.text), "\\"))

(***************************************************************************)
(* The data the pipeline works on.  A polygon is the set of drainage       *)
(* areas (named by their segment) it covers, so a union of polygons is a   *)
(* union of sets and a grid's cells are the areas of its region.           *)
(***************************************************************************)
\* start_node and end_node of process_request.
StartNode == "nex-2177032"

EndNode == "nex-2175887"

\* The identifier the outflow polygon is selected by.
OutflowId == "wb-2175886"

\* The identifiers the intersection is restricted to.
InflowIds == {"wb-2177031", "wb-2176992"}

\* mapping_flows_order = np.array([1, 0]) (0-based positions).
MappingFlowsOrder == <<1, 0>>

\* Path.cwd() / rel is the pair <<cwd, rel>>; "/app/..." is <<"/app", rel>>.
Cwds == {"/app", "/srv"}

RegionRel == "data/NWM/flowlines_divides.geojson"

\* The region file setup_grid_from_region reads.
RegionReadPath(c) == <<c, RegionRel>>

\* output_divides, the file the merged region is exported to.
RegionWritePath == <<"/app", RegionRel>>

\* root_dir, the model root.
RootDir(c) == <<c, "data/SFINCS/ngwpc_data">>

\* The releases of the network dataset cwd/data/NWM/nextgen_11.gpkg: the one
\* the literals of process_request were taken from, and one that names the
\* reach above the end node wb-2170000.
Networks == {"nextgen_11", "nextgen_11_renumbered"}

Segments == {"wb-2177031", "wb-2176992", "wb-2175886", "wb-2170000"}

\* A stable number per segment, used to tell the discharge series apart.
SegmentNo(id) ==
    CASE id = "wb-2177031" -> 1
      [] id = "wb-2176992" -> 2
      [] id = "wb-2175886" -> 3
      [] id = "wb-2170000" -> 4

NoSubset == [ok |-> FALSE, flowlines |-> <<>>, divides |-> {}, crs |-> ""]

\* formatting_sfincs.create_subset on the network dataset: the flow
\* segments (ordered) and drainage polygons between two nodes; it fails for
\* nodes the network does not connect.
CreateSubset(file, start, end) ==
    IF start = "nex-2177032" /\ end = "nex-2175887" /\ file = "nextgen_11_renumbered"
    THEN [ok |-> TRUE,
          flowlines |-> <<"wb-2177031", "wb-2176992", "wb-2170000">>,
          divides |-> {"wb-2177031", "wb-2176992", "wb-2170000"},
          crs |-> "EPSG:5070"]
    ELSE IF start = "nex-2177032" /\ end = "nex-2175887"
    THEN [ok |-> TRUE,
          flowlines |-> <<"wb-2177031", "wb-2176992", "wb-2175886">>,
          divides |-> {"wb-2177031", "wb-2176992", "wb-2175886"},
          crs |-> "EPSG:5070"]
    ELSE IF start = "nex-2176993" /\ end = "nex-2175887"
    THEN [ok |-> TRUE,
          flowlines |-> <<"wb-2176992", "wb-2175886">>,
          divides |-> {"wb-2176992", "wb-2175886"},
          crs |-> "EPSG:5070"]
    ELSE NoSubset

\* The WorkRequest a decoded message stands for: its "start" and "end"
\* members.
MemberOf(v, key) ==
    IF \E m \in v.o : m.k = key
    THEN (CHOOSE m \in v.o : m.k = key).v.s
    ELSE <<>>

WorkRequest(v) ==
    [start |-> MemberOf(v, <<"s","t","a","r","t">>),
     end |-> MemberOf(v, <<"e","n","d">>)]

\* A node identifier as the text a message carries it in.
NodeText(node) ==
    CASE node = "nex-2177032" -> <<"n","e","x","-","2","1","7","7","0","3","2">>
      [] node = "nex-2175887" -> <<"n","e","x","-","2","1","7","5","8","8","7">>
      [] node = "nex-2176993" -> <<"n","e","x","-","2","1","7","6","9","9","3">>

(***************************************************************************)
(* Time.  A timestamp is <<year, month, day, hour>>; within the month of   *)
(* the run it is counted in hours.                                         *)
(***************************************************************************)
TRef == <<2019, 5, 20, 0>>

TStart == <<2019, 5, 20, 0>>

TStop == <<2019, 5, 27, 0>>

NoTime == <<0, 0, 0, 0>>

\* utils.parse_datetime, as hours since the start of the month.
ParseDatetime(ts) == ts[3] * 24 + ts[4]

\* periods of pd.date_range
Periods == 8

\* the step of flood_root[_id][::24]
Stride == 24

\* pd.date_range(start, end, periods): evenly spaced, both ends included.
DateRange(start, end, periods) ==
    [i \in 1..periods |-> start + ((i - 1) * (end - start)) \div (periods - 1)]

\* The discharge value the provider holds for a segment at an hour.
DischargeValue(id, hour) == SegmentNo(id) * 1000 + hour

\* The hourly series of a segment, of the length the provider returned.
Series(id, len) == [h \in 1..len |-> DischargeValue(id, h - 1)]

\* s[::step]: every step-th sample, from the first.
StridedSlice(s, step) ==
    [i \in 1..((Len(s) + step - 1) \div step) |-> s[(i - 1) * step + 1]]

\* s[:-1]: the last sample dropped.
DropLast(s) == SubSeq(s, 1, Len(s) - 1)

\* Resample as a slip would have it: the trailing sample kept.
Resample_KeepLast(series) == StridedSlice(series, Stride)

\* flood_root[_id][::24][:-1]
Resample(series) == DropLast(StridedSlice(series, Stride))

(***************************************************************************)
(* The SfincsModel object sf and the library calls process_request makes   *)
(* on it, each by its effect on the object.                                *)
(***************************************************************************)
NoTable == [index |-> <<>>, columns |-> <<>>, data |-> <<>>]

NoConfig == [tref |-> NoTime, tstart |-> NoTime, tstop |-> NoTime]

\* SfincsModel(data_libs, root, mode="w+"): an empty model bound to root.
SfincsModel(root) ==
    [root |-> root, region |-> {}, crs |-> "", dep |-> FALSE, mask |-> {},
     bounds |-> {}, rivers |-> <<>>, inflow |-> <<>>, config |-> NoConfig,
     dis |-> NoTable, structures |-> ""]

NoFile == [exists |-> FALSE, geom |-> {}, writer |-> 0]

\* sf.setup_grid_from_region(region={"geom": path}, crs): the grid covers
\* the polygon stored in the file.
SetupGridFromRegion(sf, file, crs) ==
    [sf EXCEPT !.region = file.geom, !.crs = crs]

\* sf.setup_dep(datasets_dep)
SetupDep(sf) == [sf EXCEPT !.dep = TRUE]

\* unary_union(_subset_divides["geometry"])
UnaryUnion(divides) == UNION {{d} : d \in divides}

\* merged_gdf.to_file(output_divides): the file now holds the polygon.
ToFile(fs, path, geom, r) ==
    [fs EXCEPT ![path] = [exists |-> TRUE, geom |-> geom, writer |-> r]]

\* _subset_divides[_subset_divides["id"] == "wb-2175886"]
OutflowPolygon(divides) == {d \in divides : d = OutflowId}

\* SetupMaskActive as a slip would have it: reset_mask left out of the call,
\* the cells added to the mask the grid carries.
SetupMaskActive_Merge(sf, include, reset) ==
    [sf EXCEPT !.mask = @ \cup (sf.region \cap include)]

\* sf.setup_mask_active(include_mask, reset_mask): the cells of the grid
\* inside the polygon, added to the prior mask unless it is reset.
SetupMaskActive(sf, include, reset) ==
    [sf EXCEPT !.mask = (IF reset THEN {} ELSE @) \cup (sf.region \cap include)]

\* sf.setup_mask_bounds(btype="waterlevel", include_mask, reset_bounds)
SetupMaskBounds(sf, include, reset) ==
    [sf EXCEPT !.bounds = (IF reset THEN {} ELSE @) \cup (sf.mask \cap include)]

Range(seq) == {seq[i] : i \in 1..Len(seq)}

\* The segments of the network that flow into a segment.
Upstream(id) ==
    IF id \in {"wb-2175886", "wb-2170000"} THEN {"wb-2177031", "wb-2176992"} ELSE {}

\* workflows.flwdir.river_source_points(gdf_riv, gdf_mask, "inflow"): the
\* heads of the rivers that no other river of the set flows into and that
\* lie in the region, in the order the library lists them.
RiverSourcePoints(rivers, region, order) ==
    SelectSeq(order, LAMBDA id : /\ id \in Range(rivers)
                                 /\ Upstream(id) \cap Range(rivers) = {}
                                 /\ id \in region)

\* sf.setup_river_inflow(rivers, keep_rivers_geom=True): the source points
\* become the index of sf.forcing["dis"].
SetupRiverInflow(sf, rivers, order) ==
    [sf EXCEPT !.rivers = rivers,
               !.inflow = RiverSourcePoints(rivers, sf.region, order)]

\* formatting_sfincs.get_event_data: the records the provider holds for the
\* flowlines, each the length of its hourly series.
GetEventData(flowlines, provider) == {rec \in provider : rec.id \in Range(flowlines)}

HasRecord(flood_root, id) == \E rec \in flood_root : rec.id = id

RecordOf(flood_root, id) == CHOOSE rec \in flood_root : rec.id = id

\* gpd.overlay(gdf_src, buffered_lines, how="intersection"): one row per
\* source point and buffered line that meet, in the order the join gives.
Overlay(gdf_src, lines, rows) ==
    SelectSeq(rows, LAMBDA row : row.pt \in Range(gdf_src) /\ row.id \in Range(lines))

\* intersection[intersection["id"].isin(["wb-2177031", "wb-2176992"])]["id"]
SubsetIntersectionIds(intersection) ==
    LET kept == SelectSeq(intersection, LAMBDA row : row.id \in InflowIds)
    IN [i \in 1..Len(kept) |-> kept[i].id]

\* sf.setup_config(tref, tstart, tstop)
SetupConfig(sf) ==
    [sf EXCEPT !.config = [tref |-> TRef, tstart |-> TStart, tstop |-> TStop]]

\* dis = [flood_root[_id][::24][:-1] for _id in ids]
ResampledRows(ids, flood_root) ==
    [i \in 1..Len(ids) |-> Resample(Series(ids[i], RecordOf(flood_root, ids[i]).len))]

\* dis[mapping_flows_order].T: the rows picked by position become columns.
PickColumns(dis) ==
    [k \in 1..Len(MappingFlowsOrder) |-> dis[MappingFlowsOrder[k] + 1]]

\* Lines 127-133 raise when an id has no record (KeyError), the rows differ
\* in length (np.array), a picked position is out of range (IndexError), no
\* inflow point was registered (KeyError on sf.forcing["dis"]) or the data
\* does not have the shape of index x columns (DataFrame).
ForcingRaises(sf, ids, flood_root, time) ==
    \/ \E i \in 1..Len(ids) : ~HasRecord(flood_root, ids[i])
    \/ LET dis == ResampledRows(ids, flood_root)
       IN \/ \E i, j \in 1..Len(dis) : Len(dis[i]) # Len(dis[j])
          \/ \E k \in 1..Len(MappingFlowsOrder) : MappingFlowsOrder[k] + 1 > Len(dis)
          \/ sf.inflow = <<>>
          \/ Len(PickColumns(dis)[1]) # Len(time)
          \/ Len(PickColumns(dis)) # Len(sf.inflow)

\* dispd = pd.DataFrame(index=time, columns=index, data=dis)
ForcingTable(sf, ids, flood_root, time) ==
    [index |-> time, columns |-> sf.inflow,
     data |-> PickColumns(ResampledRows(ids, flood_root))]

\* sf.setup_discharge_forcing(timeseries=dispd)
SetupDischargeForcing(sf, dispd) == [sf EXCEPT !.dis = dispd]

\* sf.setup_structures(structures, stype="weir")
SetupStructures(sf) == [sf EXCEPT !.structures = "weir"]

NoBundle == [state |-> "none", writer |-> 0, bundle |-> SfincsModel(<<"", "">>)]

\* sf.write(): the whole model is stored under its root.
WriteModel(st, sf, r) ==
    [st EXCEPT ![sf.root] = [state |-> "full", writer |-> r, bundle |-> sf]]

\* sf.write() interrupted: some of the files are stored.
WritePartial(st, sf, r) ==
    [st EXCEPT ![sf.root] = [state |-> "partial", writer |-> r, bundle |-> sf]]

(***************************************************************************)
(* State.                                                                  *)
(***************************************************************************)
VARIABLES
    cwd,          \* Path.cwd() of the consumer process
    network,      \* the release of the network dataset under cwd
    files,        \* the region files on disk, by path
    files0,       \* the region files as they were when the consumer started
    store,        \* the model roots on disk, by path
    provider,     \* the discharge records the time-series source returns
    srcOrder,     \* the order in which the library lists river source points
    overlayRows,  \* the rows the spatial join yields, in its order
    queue,        \* the payloads of the messages to deliver, in order
    delivered,    \* how many messages were handed to process_request
    current,      \* the request whose coroutine is running, 0 when none is
    run,          \* per request: its position, locals and sf
    cache         \* the cache lru_cache keeps for get_consumer_manager

vars == <<cwd, network, files, files0, store, provider, srcOrder, overlayRows,
          queue, delivered, current, run, cache>>

env == <<cwd, network, files0, provider, srcOrder, overlayRows, queue>>

\* The number of messages the queue holds at most.
NumRequests == 2

Requests == 1..NumRequests

RegionPaths == {<<c, RegionRel>> : c \in Cwds}

RootDirs == {RootDir(c) : c \in Cwds}

\* processed is the state of the message handed to process_request: "none"
\* until message.ack(), message.nack() or message.reject() is called on it.
\* process_request reads message.body and calls none of them.
NewRun ==
    [pc |-> "Queued", body |-> <<>>, processed |-> "none",
     decoded |-> [ok |-> FALSE, v |-> JNone],
     sf |-> SfincsModel(<<"", "">>), subsetArgs |-> <<"", "">>,
     subset |-> NoSubset, gridFile |-> NoFile, merged |-> {}, outflow |-> {},
     flood_root |-> {}, gdf_src |-> <<>>, ids |-> <<>>, time |-> <<>>,
     exportRaised |-> FALSE, failedAt |-> "", trace |-> <<>>]

\* The payload of a request for the reach between two nodes.
RequestText(start, end) ==
    <<"{", "\"", "s", "t", "a", "r", "t", "\"", ":", "\"">> \o NodeText(start)
        \o <<"\"", ",", "\"", "e", "n", "d", "\"", ":", "\"">> \o NodeText(end)
        \o <<"\"", "}">>

\* The same text as a producer sends it that quotes and escapes the JSON.
Escaped(text) ==
    LET esc(c) == IF c = "\"" THEN <<"\\", "\"">> ELSE <<c>>
        F[i \in 0..Len(text)] == IF i = 0 THEN <<>> ELSE F[i - 1] \o esc(text[i])
    IN <<"\"">> \o F[Len(text)] \o <<"\"">>

PayloadA == Encode(RequestText("nex-2177032", "nex-2175887"))

PayloadB == Encode(Escaped(RequestText("nex-2176993", "nex-2175887")))

PayloadBad == Encode(<<"n", "e", "x">>)

PipelinePayloads == {PayloadA, PayloadB, PayloadBad}

\* The region file left by a run for another reach, and the one a run for
\* the reach between StartNode and EndNode leaves.
StaleRegion == {"wb-2177031", "wb-2176992", "wb-2170000"}

FreshRegion == {"wb-2177031", "wb-2176992", "wb-2175886"}

RegionFile(geom) == [exists |-> TRUE, geom |-> geom, writer |-> 0]

\* Hourly records from START_DATE (May 20) to END_DATE (May 28), both ends
\* included.
FullHours == (28 - 20) * 24 + 1

FullProvider == {[id |-> id, len |-> FullHours] : id \in Segments}

AscendingOrder == <<"wb-2177031", "wb-2176992", "wb-2175886", "wb-2170000">>

Row(pt, id) == [pt |-> pt, id |-> id]

OwnRows == <<Row("wb-2177031", "wb-2177031"), Row("wb-2176992", "wb-2176992")>>

OwnRowsReversed == <<Row("wb-2176992", "wb-2176992"), Row("wb-2177031", "wb-2177031")>>

\* The cache of a function lru_cache has just wrapped: no entry.  entry is
\* the result stored under the key of the empty argument list (0: none),
\* constructed the number of ConsumerManager objects made so far (the k-th
\* is called k), handles the objects calls have returned.
NewCache == [entry |-> 0, constructed |-> 0, handles |-> {}, calls |-> 0]

InitWith(cwds, queues, regionFiles, providers, orders, rowChoices, networks) ==
    /\ cwd \in cwds
    /\ network \in networks
    /\ queue \in queues
    /\ \E f \in regionFiles :
           files = [p \in RegionPaths |-> IF p = RegionReadPath(cwd) THEN f ELSE NoFile]
    /\ files0 = files
    /\ store = [d \in RootDirs |-> NoBundle]
    /\ provider \in providers
    /\ srcOrder \in orders
    /\ overlayRows \in rowChoices
    /\ delivered = 0
    /\ current = 0
    /\ run = [r \in Requests |-> NewRun]
    /\ cache = NewCache

Init ==
    InitWith(Cwds, [Requests -> PipelinePayloads],
             {NoFile, RegionFile(StaleRegion), RegionFile(FreshRegion)},
             {FullProvider}, {AscendingOrder}, {OwnRows, OwnRowsReversed},
             {"nextgen_11"})

(***************************************************************************)
(* process_request, one action per statement group.  The coroutine has no  *)
(* await: once a message is handed to it, it runs to its end or to the     *)
(* exception that ends it before the next message is handled.              *)
(***************************************************************************)
At(r, label) == current = r /\ run[r].pc = label

\* An exception leaves process_request.
Raise(r, stage) ==
    /\ run' = [run EXCEPT ![r].pc = "Failed", ![r].failedAt = stage]
    /\ current' = 0

\* The consumer hands the next message of the queue to process_request.
Receive(r) ==
    /\ current = 0
    /\ r = delivered + 1
    /\ r <= Len(queue)
    /\ delivered' = r
    /\ current' = r
    /\ run' = [run EXCEPT ![r].pc = "Decode", ![r].body = queue[r],
                          ![r].trace = <<"Received">>]
    /\ UNCHANGED <<env, cache, files, store>>

\* _ = self.read_message(message.body)
Decode(r) ==
    /\ At(r, "Decode")
    /\ LET res == ReadMessage(run[r].body)
       IN IF res.ok
          THEN /\ run' = [run EXCEPT ![r].pc = "CreateModel", ![r].decoded = res,
                                     ![r].trace = Append(@, "Decoded")]
               /\ UNCHANGED current
          ELSE Raise(r, "decode")
    /\ UNCHANGED <<env, cache, files, store, delivered>>

\* sf = SfincsModel(data_libs=[data_lib], root=root_dir, mode="w+")
CreateModel(r) ==
    /\ At(r, "CreateModel")
    /\ \/ /\ run' = [run EXCEPT ![r].pc = "Subset", ![r].sf = SfincsModel(RootDir(cwd))]
          /\ UNCHANGED current
       \/ Raise(r, "model")
    /\ UNCHANGED <<env, cache, files, store, delivered>>

\* formatting_sfincs.create_subset(file_path, start_node, end_node)
Subset(r) ==
    /\ At(r, "Subset")
    /\ LET sub == CreateSubset(network, StartNode, EndNode)
       IN \/ /\ sub.ok
             /\ run' = [run EXCEPT ![r].pc = "Grid", ![r].subset = sub,
                                   ![r].subsetArgs = <<StartNode, EndNode>>,
                                   ![r].trace = Append(@, "Subset")]
             /\ UNCHANGED current
          \/ Raise(r, "subset")
    /\ UNCHANGED <<env, cache, files, store, delivered>>

\* sf.setup_grid_from_region(region={"geom": cwd / flowlines_divides.geojson})
Grid(r) ==
    /\ At(r, "Grid")
    /\ LET file == files[RegionReadPath(cwd)]
       IN \/ /\ file.exists
             /\ run' = [run EXCEPT ![r].pc = "Dep", ![r].gridFile = file,
                            ![r].sf = SetupGridFromRegion(@, file, run[r].subset.crs)]
             /\ UNCHANGED current
          \/ Raise(r, "grid")
    /\ UNCHANGED <<env, cache, files, store, delivered>>

\* sf.setup_dep(datasets_dep=datasets_dep)
Dep(r) ==
    /\ At(r, "Dep")
    /\ \/ /\ run' = [run EXCEPT ![r].pc = "Merge", ![r].sf = SetupDep(@),
                                ![r].trace = Append(@, "GridBuilt")]
          /\ UNCHANGED current
       \/ Raise(r, "elevation")
    /\ UNCHANGED <<env, cache, files, store, delivered>>

\* merged_polygon = unary_union(...); merged_gdf = gpd.GeoDataFrame(...)
Merge(r) ==
    /\ At(r, "Merge")
    /\ run' = [run EXCEPT ![r].pc = "Export",
                          ![r].merged = UnaryUnion(run[r].subset.divides)]
    /\ UNCHANGED <<env, cache, files, store, delivered, current>>

\* Export as a slip would have it: the file written by an awaited call, which
\* hands control to the event loop before the next statement.
Export_Awaited(r) ==
    /\ At(r, "Export")
    /\ \/ /\ files' = ToFile(files, RegionWritePath, run[r].merged, r)
          /\ run' = [run EXCEPT ![r].pc = "Outflow"]
          /\ current' = 0
       \/ /\ run' = [run EXCEPT ![r].pc = "Failed", ![r].failedAt = "export",
                                ![r].exportRaised = TRUE]
          /\ current' = 0
          /\ UNCHANGED files
    /\ UNCHANGED <<env, cache, store, delivered>>

\* merged_gdf.to_file(output_divides, driver="GeoJSON"): no handler is
\* around the call, so its exception leaves process_request.
Export(r) ==
    /\ At(r, "Export")
    /\ \/ /\ files' = ToFile(files, RegionWritePath, run[r].merged, r)
          /\ run' = [run EXCEPT ![r].pc = "Outflow"]
          /\ UNCHANGED current
       \/ /\ run' = [run EXCEPT ![r].pc = "Failed", ![r].failedAt = "export",
                                ![r].exportRaised = TRUE]
          /\ current' = 0
          /\ UNCHANGED files
    /\ UNCHANGED <<env, cache, store, delivered>>

\* outflow_polygon = _subset_divides[_subset_divides["id"] == "wb-2175886"]
Outflow(r) ==
    /\ At(r, "Outflow")
    /\ run' = [run EXCEPT ![r].pc = "Masks",
                          ![r].outflow = OutflowPolygon(run[r].subset.divides),
                          ![r].trace = Append(@, "RegionResolved")]
    /\ UNCHANGED <<env, cache, files, store, delivered, current>>

\* sf.setup_mask_active(include_mask=merged_gdf, reset_mask=True)
Masks(r) ==
    /\ At(r, "Masks")
    /\ \/ /\ run' = [run EXCEPT ![r].pc = "Bounds",
                        ![r].sf = SetupMaskActive(@, run[r].merged, TRUE)]
          /\ UNCHANGED current
       \/ Raise(r, "masks")
    /\ UNCHANGED <<env, cache, files, store, delivered>>

\* sf.setup_mask_bounds(btype="waterlevel", include_mask=outflow_polygon,
\* reset_bounds=True)
Bounds(r) ==
    /\ At(r, "Bounds")
    /\ \/ /\ run' = [run EXCEPT ![r].pc = "Inflow",
                        ![r].sf = SetupMaskBounds(@, run[r].outflow, TRUE)]
          /\ UNCHANGED current
       \/ Raise(r, "bounds")
    /\ UNCHANGED <<env, cache, files, store, delivered>>

\* sf.setup_river_inflow(rivers=_subset_flowlines, keep_rivers_geom=True)
Inflow(r) ==
    /\ At(r, "Inflow")
    /\ \/ /\ run' = [run EXCEPT ![r].pc = "Fetch",
                        ![r].sf = SetupRiverInflow(@, run[r].subset.flowlines, srcOrder),
                        ![r].trace = Append(@, "BoundariesMarked")]
          /\ UNCHANGED current
       \/ Raise(r, "inflow")
    /\ UNCHANGED <<env, cache, files, store, delivered>>

\* flood_root = formatting_sfincs.get_event_data(...)
Fetch(r) ==
    /\ At(r, "Fetch")
    /\ \/ /\ run' = [run EXCEPT ![r].pc = "Sources",
                        ![r].flood_root = GetEventData(run[r].subset.flowlines, provider)]
          /\ UNCHANGED current
       \/ Raise(r, "fetch")
    /\ UNCHANGED <<env, cache, files, store, delivered>>

\* gdf_src = river_source_points(...); intersection = gpd.overlay(...);
\* _subset_intersection = intersection[intersection["id"].isin([...])]
Sources(r) ==
    /\ At(r, "Sources")
    /\ LET src == RiverSourcePoints(run[r].subset.flowlines, run[r].sf.region, srcOrder)
           inter == Overlay(src, run[r].subset.flowlines, overlayRows)
       IN \/ /\ run' = [run EXCEPT ![r].pc = "Config", ![r].gdf_src = src,
                                   ![r].ids = SubsetIntersectionIds(inter)]
             /\ UNCHANGED current
          \/ Raise(r, "sources")
    /\ UNCHANGED <<env, cache, files, store, delivered>>

\* sf.setup_config(...); time = pd.date_range(start, end, periods=8)
Config(r) ==
    /\ At(r, "Config")
    /\ LET sf2 == SetupConfig(run[r].sf)
       IN run' = [run EXCEPT ![r].pc = "Forcing", ![r].sf = sf2,
                     ![r].time = DateRange(ParseDatetime(sf2.config.tstart),
                                           ParseDatetime(sf2.config.tstop), Periods)]
    /\ UNCHANGED <<env, cache, files, store, delivered, current>>

\* Forcing as a slip would have it: the ids the source holds no record for
\* are skipped (flood_root.get) and the table is built from the rest.
Forcing_SkipMissing(r) ==
    /\ At(r, "Forcing")
    /\ LET held == SelectSeq(run[r].ids, LAMBDA id : HasRecord(run[r].flood_root, id))
       IN \/ /\ ~ForcingRaises(run[r].sf, held, run[r].flood_root, run[r].time)
             /\ run' = [run EXCEPT ![r].pc = "Structures",
                           ![r].sf = SetupDischargeForcing(@,
                                         ForcingTable(run[r].sf, held,
                                                      run[r].flood_root, run[r].time)),
                           ![r].trace = Append(@, "ForcingResolved")]
             /\ UNCHANGED current
          \/ Raise(r, "forcing")
    /\ UNCHANGED <<env, cache, files, store, delivered>>

\* dis = ...; dispd = pd.DataFrame(...); sf.setup_discharge_forcing(dispd)
Forcing(r) ==
    /\ At(r, "Forcing")
    /\ \/ /\ ~ForcingRaises(run[r].sf, run[r].ids, run[r].flood_root, run[r].time)
          /\ run' = [run EXCEPT ![r].pc = "Structures",
                        ![r].sf = SetupDischargeForcing(@,
                                      ForcingTable(run[r].sf, run[r].ids,
                                                   run[r].flood_root, run[r].time)),
                        ![r].trace = Append(@, "ForcingResolved")]
          /\ UNCHANGED current
       \/ Raise(r, "forcing")
    /\ UNCHANGED <<env, cache, files, store, delivered>>

\* Structures as a slip would have it: sf.write() called before
\* setup_structures, whose failure then follows a stored bundle.
Structures_WriteFirst(r) ==
    /\ At(r, "Structures")
    /\ store' = WriteModel(store, run[r].sf, r)
    /\ \/ /\ run' = [run EXCEPT ![r].pc = "Write", ![r].sf = SetupStructures(@)]
          /\ UNCHANGED current
       \/ Raise(r, "structures")
    /\ UNCHANGED <<env, cache, files, delivered>>

\* sf.setup_structures(structures=..., stype="weir", dz=None)
Structures(r) ==
    /\ At(r, "Structures")
    /\ \/ /\ run' = [run EXCEPT ![r].pc = "Write", ![r].sf = SetupStructures(@)]
          /\ UNCHANGED current
       \/ Raise(r, "structures")
    /\ UNCHANGED store
    /\ UNCHANGED <<env, cache, files, delivered>>

\* sf.write(): the bundle is stored and process_request returns, or the
\* write raises with none or some of the files stored.
Write(r) ==
    /\ At(r, "Write")
    /\ \/ /\ store' = WriteModel(store, run[r].sf, r)
          /\ run' = [run EXCEPT ![r].pc = "Done",
                                ![r].trace = Append(@, "BundleWritten")]
          /\ current' = 0
       \/ /\ store' \in {store, WritePartial(store, run[r].sf, r)}
          /\ Raise(r, "write")
    /\ UNCHANGED <<env, cache, files, delivered>>

Next ==
    \E r \in Requests :
        \/ Receive(r) \/ Decode(r) \/ CreateModel(r) \/ Subset(r) \/ Grid(r)
        \/ Dep(r) \/ Merge(r) \/ Export(r) \/ Outflow(r) \/ Masks(r) \/ Bounds(r)
        \/ Inflow(r) \/ Fetch(r) \/ Sources(r) \/ Config(r) \/ Forcing(r)
        \/ Structures(r) \/ Write(r)

Spec == Init /\ [][Next]_vars

(***************************************************************************)
(* get_consumer_manager, the accessor of cache.py, called by the process   *)
(* between the runs of process_request.                                    *)
(***************************************************************************)
\* The most calls of get_consumer_manager.
MaxCalls == 3

\* CacheGet as a slip would have it: the decorator left out (or given
\* maxsize=0), so that no call finds a stored result.
CacheGet_Uncached(c) == 0

\* The lookup lru_cache makes before it calls the function: the result
\* stored for the empty argument list, 0 when there is none.
CacheGet(c) == c.entry

\* get_consumer_manager(): a stored result is returned; otherwise
\* ConsumerManager() is called and its result stored and returned, or its
\* exception passed on with nothing stored.
GetConsumerManager ==
    /\ current = 0
    /\ cache.calls < MaxCalls
    /\ LET hit == CacheGet(cache)
           made == cache.constructed + 1
       IN IF hit # 0
          THEN cache' = [cache EXCEPT !.calls = @ + 1, !.handles = @ \cup {hit}]
          ELSE \/ cache' = [cache EXCEPT !.calls = @ + 1, !.constructed = made,
                                         !.entry = made, !.handles = @ \cup {made}]
               \/ cache' = [cache EXCEPT !.calls = @ + 1]
    /\ UNCHANGED <<env, files, store, delivered, current, run>>

NextCache == Next \/ GetConsumerManager

InitCache ==
    InitWith({"/app"}, [{1} -> {PayloadA}], {RegionFile(FreshRegion)},
             {FullProvider}, {AscendingOrder}, {OwnRowsReversed}, {"nextgen_11"})

SpecCache == InitCache /\ [][NextCache]_vars

(***************************************************************************)
(* The decoder on its own inputs: one message whose payload is drawn from  *)
(* short byte strings and from JSON texts wrapped in brace-free text.      *)
(***************************************************************************)
\* The longest arbitrary byte string drawn.
MaxNoise == 3

\* The longest prefix and suffix put around a JSON text.
MaxAffix == 1

NoiseBytes == {123, 125, 34, 49, 92, InvalidByte}

AffixBytes == {34, 49, 92, 97, InvalidByte}

BytesUpTo(alphabet, n) == UNION {[1..k -> alphabet] : k \in 0..n}

Q == "\""

\* Texts that begin with "{" and end with "}": some parse, some do not.
Cores ==
    { <<"{", "}">>,
      <<"{", Q, "a", Q, ":", "1", "}">>,
      <<"{", Q, "a", Q, ":", "{", "}", "}">>,
      <<"{", Q, "a", Q, ":", Q, "}", "{", Q, "}">>,
      <<"{", "\\", Q, "a", "\\", Q, ":", "1", "0", "}">>,
      <<"{", Q, "a", Q, ":", "1", ",", Q, "a", Q, ":", Q, Q, "}">>,
      <<"{", "}", "{", "}">>,
      <<"{", Q, "a", Q, "}">>,
      <<"{", Q, "a", Q, ":", "0", "1", "}">> }

DecodePayloads ==
    BytesUpTo(NoiseBytes, MaxNoise)
        \cup {p \o Encode(c) \o q : p, q \in BytesUpTo(AffixBytes, MaxAffix), c \in Cores}

InitDecode ==
    InitWith({"/app"}, [{1} -> DecodePayloads], {RegionFile(FreshRegion)},
             {FullProvider}, {AscendingOrder}, {OwnRowsReversed}, {"nextgen_11"})

SpecDecode == InitDecode /\ [][Next]_vars

(***************************************************************************)
(* The forcing stages on their own inputs: one message, and what the       *)
(* network dataset, the region file, the discharge source and the spatial  *)
(* join hold drawn from the cases the code does not rule out.              *)
(***************************************************************************)
\* The most rows the spatial join yields.
MaxRows == 3

\* A region file left for the reach from nex-2176993 on: it holds one of the
\* two inflow segments.
OneHeadRegion == {"wb-2176992", "wb-2175886"}

ReversedOrder == <<"wb-2170000", "wb-2175886", "wb-2176992", "wb-2177031">>

\* Lengths of the hourly series the discharge source returns; Missing stands
\* for no record.
Missing == 0 - 1

SeriesLengths == {Missing, 0, FullHours - 1, FullHours, FullHours + 23, FullHours + 24}

\* The source holding series of the given lengths for the two inflow
\* segments and the full window for the others.
ProviderWith(len1, len2) ==
    {rec \in {[id |-> "wb-2177031", len |-> len1], [id |-> "wb-2176992", len |-> len2],
              [id |-> "wb-2175886", len |-> FullHours],
              [id |-> "wb-2170000", len |-> FullHours]} : rec.len # Missing}

\* The pairs of source point and buffered line that can meet: each head
\* with its own line, the head of wb-2177031 within the buffer of
\* wb-2176992, the head of wb-2176992 within that of the outflow reach.
JoinRows ==
    {Row("wb-2177031", "wb-2177031"), Row("wb-2176992", "wb-2176992"),
     Row("wb-2177031", "wb-2176992"), Row("wb-2176992", "wb-2175886")}

\* The joins of at most n rows, no pair twice.
RowsUpTo(n) ==
    UNION {{rows \in [1..k -> JoinRows] : \A i, j \in 1..k : rows[i] = rows[j] => i = j}
           : k \in 0..n}

InitForcing ==
    InitWith({"/app"}, [{1} -> {PayloadA}],
             {RegionFile(FreshRegion), RegionFile(OneHeadRegion)},
             {ProviderWith(l1, l2) : l1, l2 \in SeriesLengths},
             {AscendingOrder, ReversedOrder}, RowsUpTo(MaxRows), Networks)

SpecForcing == InitForcing /\ [][Next]_vars

(***************************************************************************)
(* Properties.                                                             *)
(***************************************************************************)
IsPrefix(s, t) == Len(s) <= Len(t) /\ SubSeq(t, 1, Len(s)) = s

HasBrace(text) == \E i \in 1..Len(text) : text[i] \in {"{", "}"}

\* read_message has run for request r.
DecodeRan(r) == run[r].pc \notin {"Queued", "Decode"}

\* What read_message gave request r: its value, or that it raised.
Decoded(r) ==
    IF run[r].pc = "Failed" /\ run[r].failedAt = "decode"
    THEN [ok |-> FALSE, v |-> JNone]
    ELSE run[r].decoded

\* sf.setup_discharge_forcing has attached a table for request r.
ForcingAttached(r) == run[r].sf.dis # NoTable

\* C1: column k of the forcing table holds the series of the segment the
\* grid registered as its k-th inflow point, whatever order the segments'
\* series were discovered in.
C1_ColumnsFollowInflowIndex ==
    \A r \in Requests :
        ForcingAttached(r) =>
            /\ Len(run[r].sf.dis.data) = Len(run[r].sf.inflow)
            /\ \A k \in 1..Len(run[r].sf.inflow) :
                   /\ HasRecord(run[r].flood_root, run[r].sf.inflow[k])
                   /\ run[r].sf.dis.data[k] =
                          Resample(Series(run[r].sf.inflow[k],
                                   RecordOf(run[r].flood_root, run[r].sf.inflow[k]).len))

StagesBeforeWrite ==
    <<"Received", "Decoded", "Subset", "GridBuilt", "RegionResolved",
      "BoundariesMarked", "ForcingResolved">>

\* C2 (as claimed): a run that fails in a stage before the bundle write
\* has stored nothing of the bundle and left no file behind.
C2_NoArtifactOnFailure ==
    \A r \in Requests :
        (run[r].pc = "Failed" /\ run[r].failedAt # "write") =>
            /\ \A d \in RootDirs : store[d].writer # r
            /\ \A p \in RegionPaths : files[p].writer # r

\* C2 (amended): the bundle is stored by a run only once all its earlier
\* stages have succeeded, so a run failing before the write stores nothing
\* of it; the exported region file is left behind by exactly the failed
\* runs that failed after the export.
C2_BundleOnlyAfterAllStages ==
    \A r \in Requests :
        /\ \A d \in RootDirs :
               store[d].writer = r =>
                   /\ IsPrefix(StagesBeforeWrite, run[r].trace)
                   /\ run[r].sf.structures = "weir"
                   /\ run[r].pc = "Done" \/ (run[r].pc = "Failed" /\ run[r].failedAt = "write")
                   /\ store[d].bundle = run[r].sf
        /\ (run[r].pc = "Failed" /\ run[r].failedAt # "write") =>
               /\ \A d \in RootDirs : store[d].writer # r
               /\ (files[RegionWritePath].writer = r) =>
                      run[r].failedAt \in {"masks", "bounds", "inflow", "fetch", "sources",
                                           "forcing", "structures"}
               /\ (run[r].failedAt \in {"masks", "bounds", "inflow", "fetch", "sources",
                                        "forcing", "structures"}
                      /\ delivered = r) => files[RegionWritePath].writer = r

\* C2 witness: a run failed in setup_structures, after its region export
\* and with nothing stored under the model root by it.
C2_Witness ==
    \E r \in Requests :
        /\ run[r].pc = "Failed" /\ run[r].failedAt = "structures"
        /\ files[RegionWritePath].writer = r
        /\ \A d \in RootDirs : store[d].writer # r

StageOrder ==
    <<"Received", "Decoded", "Subset", "RegionResolved", "GridBuilt",
      "BoundariesMarked", "ForcingResolved", "BundleWritten">>

\* C3: a request passes through the stages in the order Received, Decoded,
\* Subset, RegionResolved, GridBuilt, BoundariesMarked, ForcingResolved,
\* BundleWritten, none skipped or repeated, and runs no stage once failed.
C3_StagesInOrder ==
    \A r \in Requests :
        /\ IsPrefix(run[r].trace, StageOrder)
        /\ run[r].pc = "Done" => run[r].trace = StageOrder

\* C4: the grid of a run is built from the region that is the union of
\* that run's subset polygons, produced earlier in the same run.
C4_GridFromOwnRegion ==
    \A r \in Requests :
        run[r].gridFile.exists =>
            /\ run[r].sf.region = UnaryUnion(run[r].subset.divides)
            /\ run[r].gridFile.writer = r

\* C5: the nodes the subsetter is given are those of the WorkRequest decoded
\* from the run's message.
C5_InputsFromRequest ==
    \A r \in Requests :
        run[r].subset.ok =>
            /\ NodeText(run[r].subsetArgs[1]) = WorkRequest(run[r].decoded.v).start
            /\ NodeText(run[r].subsetArgs[2]) = WorkRequest(run[r].decoded.v).end

\* C6: read_message gives the same result each time it decodes a payload,
\* and for a payload prefix + J + suffix, J from "{" to "}" and no brace in
\* prefix or suffix, the result is that of J alone: the parse of J with
\* its backslashes removed.
C6_DecodeSpanOnly ==
    \A r \in Requests :
        DecodeRan(r) =>
            /\ Decoded(r) = ReadMessage(run[r].body)
            /\ LET dec == BytesDecode(run[r].body)
               IN dec.ok =>
                      \A i, j \in 1..Len(dec.text) :
                          ( /\ i <= j
                            /\ dec.text[i] = "{"
                            /\ dec.text[j] = "}"
                            /\ ~HasBrace(SubSeq(dec.text, 1, i - 1))
                            /\ ~HasBrace(SubSeq(dec.text, j + 1, Len(dec.text))) )
                          => /\ Decoded(r) = ReadMessage(SubSeq(run[r].body, i, j))
                             /\ Decoded(r) =
                                    JsonLoads(StrRemove(SubSeq(dec.text, i, j), "\\"))

\* C6 witness: a payload with text before and after a JSON object was
\* decoded to that object.
C6_Witness ==
    \E r \in Requests :
        /\ DecodeRan(r)
        /\ Decoded(r).ok
        /\ Decoded(r).v.o # {}
        /\ BytesDecode(run[r].body).text[1] # "{"
        /\ BytesDecode(run[r].body).text[Len(run[r].body)] # "}"

\* The 1-based positions of the first "{" and the last "}" of a text, 0 when
\* there is none.
FirstOpen(text) ==
    IF \E i \in 1..Len(text) : text[i] = "{"
    THEN CHOOSE i \in 1..Len(text) : text[i] = "{" /\ \A j \in 1..(i - 1) : text[j] # "{"
    ELSE 0

LastClose(text) ==
    IF \E i \in 1..Len(text) : text[i] = "}"
    THEN CHOOSE i \in 1..Len(text) :
             text[i] = "}" /\ \A j \in (i + 1)..Len(text) : text[j] # "}"
    ELSE 0

\* C7: read_message raises for every payload without "{", without "}", with
\* the last "}" before the first "{", or whose span from the first "{" to
\* the last "}" does not parse; a value it returns is the parse of that span.
C7_MalformedRaises ==
    \A r \in Requests :
        DecodeRan(r) =>
            LET dec == BytesDecode(run[r].body)
                a == FirstOpen(dec.text)
                b == LastClose(dec.text)
                span == StrRemove(SubSeq(dec.text, a, b), "\\")
            IN /\ (~dec.ok \/ a = 0 \/ b = 0 \/ b < a) => ~Decoded(r).ok
               /\ (dec.ok /\ a > 0 /\ b > a /\ ~JsonLoads(span).ok) => ~Decoded(r).ok
               /\ Decoded(r).ok => (a > 0 /\ b > a /\ Decoded(r) = JsonLoads(span))

\* C7 witness: a payload that holds a digit but no "{" was refused.
C7_Witness ==
    \E r \in Requests :
        /\ run[r].pc = "Failed" /\ run[r].failedAt = "decode"
        /\ BytesDecode(run[r].body).ok
        /\ Len(run[r].body) > 0
        /\ run[r].body[Len(run[r].body)] = 49
        /\ FirstOpen(BytesDecode(run[r].body).text) = 0

\* C8: when the export of the merged region raises, the request is not
\* aborted by it.
C8_ExportFailureNotFatal ==
    \A r \in Requests : run[r].exportRaised => run[r].pc # "Failed"

\* C9: two runs that complete for the same payload store the same bundle.
C9_SameBundleOnRerun ==
    \A r1, r2 \in Requests :
        (run[r1].pc = "Done" /\ run[r2].pc = "Done" /\ run[r1].body = run[r2].body)
            => run[r1].sf = run[r2].sf

\* The model process_request builds when it runs alone, from the files the
\* consumer started with.
SfAlone ==
    LET sub == CreateSubset(network, StartNode, EndNode)
        merged == UnaryUnion(sub.divides)
        sf1 == SetupDep(SetupGridFromRegion(SfincsModel(RootDir(cwd)),
                                            files0[RegionReadPath(cwd)], sub.crs))
        sf2 == SetupMaskBounds(SetupMaskActive(sf1, merged, TRUE),
                               OutflowPolygon(sub.divides), TRUE)
        sf3 == SetupConfig(SetupRiverInflow(sf2, sub.flowlines, srcOrder))
        src == RiverSourcePoints(sub.flowlines, sf3.region, srcOrder)
        ids == SubsetIntersectionIds(Overlay(src, sub.flowlines, overlayRows))
        time == DateRange(ParseDatetime(sf3.config.tstart),
                          ParseDatetime(sf3.config.tstop), Periods)
        table == ForcingTable(sf3, ids, GetEventData(sub.flowlines, provider), time)
    IN SetupStructures(SetupDischargeForcing(sf3, table))

\* C10: requests keep to their own output directory, and the bundle a
\* request stores is the one it would have stored had it run alone.
C10_RequestsIsolated ==
    /\ \A r1, r2 \in Requests :
           (r1 # r2 /\ run[r1].pc = "Done" /\ run[r2].pc = "Done")
               => run[r1].sf.root # run[r2].sf.root
    /\ \A r \in Requests : run[r].pc = "Done" => run[r].sf = SfAlone

\* The inflow series of request r have been resolved (line 113 has run).
IdsResolved(r) ==
    \/ run[r].pc \in {"Config", "Forcing", "Structures", "Write", "Done"}
    \/ run[r].pc = "Failed" /\ run[r].failedAt \in {"forcing", "structures", "write"}

\* C11: a run whose number of resolved inflow series differs from the
\* number of inflow points the grid registered attaches no forcing table and
\* stores no bundle, whatever the number of resolved series.
C11_CountMismatchFails ==
    \A r \in Requests :
        (IdsResolved(r) /\ Len(run[r].ids) # Len(run[r].sf.inflow)) =>
            /\ ~ForcingAttached(r)
            /\ \A d \in RootDirs : store[d].writer # r

\* The source returned no record for one of the series selected for request r.
RecordMissing(r) ==
    \E i \in 1..Len(run[r].ids) : ~HasRecord(run[r].flood_root, run[r].ids[i])

\* C12: a run for which the discharge source returned no record for one of
\* the inflow segments selected for forcing goes no further than the forcing
\* assembly: it fails there, attaches no forcing table and stores no bundle.
C12_MissingRecordFails ==
    \A r \in Requests :
        (IdsResolved(r) /\ RecordMissing(r)) =>
            /\ \/ run[r].pc \in {"Config", "Forcing"}
               \/ run[r].pc = "Failed" /\ run[r].failedAt = "forcing"
            /\ ~ForcingAttached(r)
            /\ "ForcingResolved" \notin Range(run[r].trace)
            /\ \A d \in RootDirs : store[d].writer # r

\* C12 witness: a run with two selected series and two registered inflow
\* points, one of the series without a record, has failed in the forcing
\* assembly.
C12_Witness ==
    \E r \in Requests :
        /\ run[r].pc = "Failed" /\ run[r].failedAt = "forcing"
        /\ Len(run[r].ids) = 2 /\ Len(run[r].sf.inflow) = 2
        /\ ~HasRecord(run[r].flood_root, run[r].ids[1])
        /\ HasRecord(run[r].flood_root, run[r].ids[2])
        /\ RecordOf(run[r].flood_root, run[r].ids[2]).len = FullHours

\* C13: when process_request has ended for a message, the message is
\* settled: nacked when the run failed (a malformed payload included), acked
\* when it completed; no ended run leaves its message unsettled.
C13_MessageSettled ==
    \A r \in Requests :
        /\ run[r].pc = "Failed" => run[r].processed = "nack"
        /\ run[r].pc = "Done" => run[r].processed = "ack"

\* The segment of a subset adjacent to its end node: the last of its flow
\* segments, which are ordered from the start node to the end node.
EndSegment(subset) == subset.flowlines[Len(subset.flowlines)]

\* C14: a run whose subset holds no drainage polygon for the segment
\* adjacent to the end node does not get past the Spatial Merger (it marks
\* no boundary and stores no bundle), and the outflow polygon of a run that
\* does get past it is the polygon of that segment.
C14_EmptyOutflowFails ==
    \A r \in Requests :
        /\ (run[r].subset.ok /\ OutflowPolygon(run[r].subset.divides) = {}) =>
               /\ "RegionResolved" \notin Range(run[r].trace)
               /\ \A d \in RootDirs : store[d].writer # r
        /\ "RegionResolved" \in Range(run[r].trace) =>
               run[r].outflow = {EndSegment(run[r].subset)}

\* The samples 1, 25, 49, ... of an hourly series of the given length, the
\* last of them left out.
EveryDayButLast(id, len) ==
    LET n == IF len = 0 THEN 0 ELSE (len - 1) \div 24
    IN [k \in 1..n |-> DischargeValue(id, (k - 1) * 24)]

\* C15: an attached forcing table has exactly 8 rows, at timestamps evenly
\* spaced from tstart to tstop, both included, and each of its columns is 8
\* values of one selected series: every 24th sample, the last one dropped.
\* When a selected series has a length for which that gives another number
\* of values (any length outside FullHours .. FullHours + 23), no table is
\* attached.
C15_EightRows ==
    \A r \in Requests :
        /\ ForcingAttached(r) =>
               LET dis == run[r].sf.dis
               IN /\ Len(dis.index) = 8
                  /\ dis.index[1] = ParseDatetime(run[r].sf.config.tstart)
                  /\ dis.index[8] = ParseDatetime(run[r].sf.config.tstop)
                  /\ \A i \in 1..7 : dis.index[i + 1] - dis.index[i] = 24
                  /\ \A k \in 1..Len(dis.data) :
                         /\ Len(dis.data[k]) = 8
                         /\ \E i \in 1..Len(run[r].ids) :
                                dis.data[k] =
                                    EveryDayButLast(run[r].ids[i],
                                        RecordOf(run[r].flood_root, run[r].ids[i]).len)
        /\ IdsResolved(r) =>
               \A i \in 1..Len(run[r].ids) :
                   LET id == run[r].ids[i]
                   IN (/\ HasRecord(run[r].flood_root, id)
                       /\ RecordOf(run[r].flood_root, id).len
                              \notin FullHours..(FullHours + 23))
                      => /\ Len(EveryDayButLast(id, RecordOf(run[r].flood_root, id).len)) # 8
                         /\ ~ForcingAttached(r)

\* C15 witness: a table of 8 rows is attached whose columns come from a
\* series of FullHours samples and one of FullHours + 23.
C15_Witness ==
    \E r \in Requests :
        /\ ForcingAttached(r)
        /\ Len(run[r].sf.dis.index) = 8
        /\ Len(run[r].ids) = 2
        /\ RecordOf(run[r].flood_root, run[r].ids[1]).len = FullHours
        /\ RecordOf(run[r].flood_root, run[r].ids[2]).len = FullHours + 23

\* setup_mask_active, setup_mask_bounds, setup_river_inflow have returned for
\* request r.
MaskDone(r) ==
    \/ run[r].pc \in {"Bounds", "Inflow", "Fetch", "Sources", "Config", "Forcing",
                      "Structures", "Write", "Done"}
    \/ run[r].pc = "Failed" /\ run[r].failedAt \in {"bounds", "inflow", "fetch", "sources",
                                                   "forcing", "structures", "write"}

BoundsDone(r) ==
    MaskDone(r) /\ run[r].pc # "Bounds" /\ run[r].failedAt # "bounds"

InflowDone(r) ==
    BoundsDone(r) /\ run[r].pc # "Inflow" /\ run[r].failedAt # "inflow"

InPipeline(r) == run[r].pc \notin {"Queued", "Done", "Failed"}

\* C17: while a request is between two stages other than at the discharge
\* fetch, no step is taken for another request: no other request is
\* received, advanced or ended, and the files and the store change by the
\* running request alone.
C17_NoInterleaving ==
    [][\A r1 \in Requests :
           (InPipeline(r1) /\ run[r1].pc # "Fetch") =>
               /\ \A r2 \in Requests \ {r1} : run'[r2] = run[r2]
               /\ delivered' = delivered
               /\ \A p \in RegionPaths : files'[p] # files[p] => files'[p].writer = r1
               /\ \A d \in RootDirs : store'[d] # store[d] => store'[d].writer = r1]_vars

\* C17 witness: a request is past the discharge fetch, resolving its inflow
\* series, while the next message waits in the queue undelivered.
C17_Witness ==
    \E r \in Requests :
        /\ run[r].pc = "Sources"
        /\ r < Len(queue)
        /\ run[r + 1].pc = "Queued"
        /\ delivered = r

\* C18: whatever calls of get_consumer_manager have been made, at most one
\* ConsumerManager has been constructed, every call that returned has
\* returned that one object, and it is the one the cache holds.
C18_OneManager ==
    /\ cache.constructed <= 1
    /\ Cardinality(cache.handles) <= 1
    /\ cache.entry \in {0, 1}
    /\ cache.entry = 0 => cache.handles = {} /\ cache.constructed = 0
    /\ cache.entry # 0 => cache.handles = {cache.entry}

\* C18 witness: after three calls of get_consumer_manager, one
\* ConsumerManager exists and is what the calls returned.
C18_Witness ==
    /\ cache.calls = 3
    /\ cache.constructed = 1
    /\ cache.handles = {1}
====
